---- MODULE Spec2Model ----
(***************************************************************************)
(* Stage 5 of the comic video pipeline: assemble_video and the helpers it  *)
(* calls (src/stages/stage5_video_assembler.py, src/utils/srt_generator.py,*)
(* src/utils/kenburns.py), as a state machine over one project folder.     *)
(*                                                                         *)
(* Time.  One tick is 1/30 s: in ticks the word-count estimate words/3.0 s *)
(* (10 ticks a word), the 3.0 s floor and the 0.1 s / 0.2 s caption insets *)
(* are whole numbers.  The budget rescale multiplies by MAX_DURATION/total,*)
(* which is not a whole number of ticks; the model keeps it exact: after   *)
(* the budget-fitting step every time value t the run holds stands for     *)
(* t/den ticks, den being the denominator of the reduced scale factor      *)
(* (den = 1 when no rescale happened).  Python's floats carry these values *)
(* up to rounding.                                                         *)
(***************************************************************************)
EXTENDS Integers, Sequences, FiniteSets, TLC

\* ------------------------------------------------------------------ bounds
\* Longest script of the explored project folders, in scenes.
MaxScenes == 2

\* ------------------------------------------------------- program constants
MAX_DURATION == 120
VIDEO_WIDTH == 1920
VIDEO_HEIGHT == 1080
VIDEO_FPS == 30
\* BGM_VOLUME = 0.15, in hundredths
BGM_VOLUME == 15
AUDIO_FADE_IN == 1
AUDIO_FADE_OUT == 2

\* ------------------------------------------------------------------- time
Seconds(s) == s * 30

Max(a, b) == IF a >= b THEN a ELSE b
Min(a, b) == IF a <= b THEN a ELSE b

RECURSIVE GCD(_, _)
GCD(a, b) == IF b = 0 THEN a ELSE GCD(b, a % b)

\* sum(f.values()) of a dict f
RECURSIVE SumValues(_)
SumValues(f) ==
    IF DOMAIN f = {} THEN 0
    ELSE LET k == CHOOSE x \in DOMAIN f : TRUE
         IN f[k] + SumValues([x \in DOMAIN f \ {k} |-> f[x]])

\* d[key] = val on a dict d
Assign(d, key, val) ==
    [x \in DOMAIN d \cup {key} |-> IF x = key THEN val ELSE d[x]]

EmptyDict == [x \in {} |-> 0]

\* ---------------------------------------------------------- project folder
\* Audio data is a sequence of segments, each one recording taken from one
\* file; its length is the sum of the segments' lengths (in ticks).
RECURSIVE AudioLen(_)
AudioLen(audio) ==
    IF audio = <<>> THEN 0 ELSE Head(audio).len + AudioLen(Tail(audio))

Recording(name, len) == <<[file |-> name, len |-> len]>>

\* Python's None where a path, a clip or a file name is expected, and where
\* an extension is expected
None == <<"None", 0, "">>
NoExt == ""
NoClip == [kind |-> "none"]

\* f"scene_{sid:02d}{ext}" in the audio directory
SceneAudio(sid, ext) == <<"scene", sid, ext>>
NarrationMp3 == <<"narration", 0, ".mp3">>
NarrationWav == <<"narration", 0, ".wav">>
NarrationCombined == <<"narration_combined", 0, ".mp3">>

\* the extensions get_scene_durations and concatenate_scene_audio try, in order
Exts == <<".wav", ".mp3", ".ogg">>

\* narration texts: a text is the sequence of its words, a word its length
ShortNarration == <<5, 6, 7, 3, 4, 2, 5>>
LongNarration == [i \in 1..30 |-> 1 + (i % 9)]
Narrations == {ShortNarration, LongNarration}

\* text.split(): a text is a sequence of tokens, a word (its length, > 0) or
\* a run of whitespace (0); the narrations above are words only
Split(text) == SelectSeq(text, LAMBDA w : w > 0)

SceneIds == {1, 2}

Scenes == [scene_id : SceneIds, narration : Narrations]

RECURSIVE SeqsUpTo(_, _)
SeqsUpTo(S, n) ==
    IF n = 0 THEN {<<>>}
    ELSE LET shorter == SeqsUpTo(S, n - 1)
         IN shorter \cup {Append(s, x) : s \in {t \in shorter : Len(t) = n - 1}, x \in S}

Scripts == {s \in SeqsUpTo(Scenes, MaxScenes) : Len(s) >= 1}

\* script.json that json.load rejects, and one that is a dict without "scenes"
NotJson == <<[malformed |-> "not json"]>>
NoScenesList == <<[malformed |-> "no scenes"]>>
\* a scene dict without the key "scene_id", or without the key "narration"
NoSceneId == 0
NoNarration == <<-1>>
MalformedScripts ==
    { NotJson, NoScenesList,
      <<[scene_id |-> NoSceneId, narration |-> ShortNarration]>>,
      <<[scene_id |-> 1, narration |-> NoNarration]>> }

\* json.load succeeds and script["scenes"] exists
HasScenes(content) == content \notin {NotJson, NoScenesList}


\* dict union; f's entries win
Merge(f, g) ==
    [x \in DOMAIN f \cup DOMAIN g |-> IF x \in DOMAIN f THEN f[x] ELSE g[x]]

\* the per-scene recordings one scene_id may have on disk: none; for scene 1
\* a .wav without frames, or a 115 s .wav beside an .mp3; for the others a
\* 0.1 s .ogg, or an 80 s .mp3 beside that .ogg
SceneAudioConfigs(sid) ==
    LET File(ext, len) == [x \in {SceneAudio(sid, ext)} |->
                              Recording(SceneAudio(sid, ext), len)]
    IN IF sid = 1
       THEN { EmptyDict,
              File(".wav", 0),
              Merge(File(".wav", Seconds(115)), File(".mp3", Seconds(2))) }
       ELSE { EmptyDict,
              File(".ogg", Seconds(1) \div 10),
              Merge(File(".mp3", Seconds(80)), File(".ogg", Seconds(1) \div 10)) }

\* a pre-made full narration, if any
FullNarrationConfigs ==
    { EmptyDict,
      [x \in {NarrationMp3} |-> Recording(NarrationMp3, Seconds(200))],
      [x \in {NarrationWav} |-> Recording(NarrationWav, Seconds(1))] }

RECURSIVE AudioDirs(_)
AudioDirs(ids) ==
    IF ids = {} THEN FullNarrationConfigs
    ELSE LET sid == CHOOSE x \in ids : TRUE
         IN {Merge(a, b) : a \in SceneAudioConfigs(sid), b \in AudioDirs(ids \ {sid})}

\* f"scene_{sid:02d}.jpg" in the images directory
SceneImage(sid) == <<"scene", sid, ".jpg">>
\* the explored images directory lacks the image of scene 2
ImageDirs == {{SceneImage(1)}}

\* the project root: script.json and the default music bgm.mp3
ScriptJson == <<"script", 0, ".json">>
DefaultBgm == <<"bgm", 0, ".mp3">>
RootDirs ==
    LET scripts == {EmptyDict}
                   \cup {[x \in {ScriptJson} |-> s] : s \in Scripts \cup MalformedScripts}
        musics == {EmptyDict, [x \in {DefaultBgm} |-> Recording(DefaultBgm, Seconds(7))]}
    IN {Merge(a, b) : a \in scripts, b \in musics}

\* the scene_ids of the script in a project root; the explored folders hold
\* per-scene recordings for these only
ScriptSceneIds(root) ==
    IF ScriptJson \in DOMAIN root /\ HasScenes(root[ScriptJson])
    THEN {root[ScriptJson][k].scene_id : k \in 1..Len(root[ScriptJson])} \ {NoSceneId}
    ELSE {}

\* the --bgm argument: None, or a path outside the project that may not exist
UserBgm == <<"music", 0, ".mp3">>
MusicFiles == {EmptyDict, [x \in {UserBgm} |-> Recording(UserBgm, Seconds(200))]}

\* ------------------------------------------------------------------ state
VARIABLES
    root_dir,          \* project root: file name -> content
    audio_dir,         \* project audio directory: file name -> audio data
    images_dir,        \* project images directory: the image files in it
    output_dir,        \* project output directory: file name -> content
    music_files,       \* files outside the project: path -> audio data
    bgm_path,          \* assemble_video's argument
    pc,                \* the statement assemble_video is at
    script,            \* json.load of script.json
    durations,         \* scene_id -> duration (over den)
    total_duration,    \* sum(durations.values()) (over den)
    den,               \* denominator of the run's time values
    scene_clips,       \* the per-scene clips, in creation order
    video,             \* the concatenated (then composited) video
    audio_tracks,      \* narration and music clips to mix
    srt_path,          \* the written subtitle file, once written
    result,            \* assemble_video's return value
    callers,           \* the suspended frames of assemble_video calls
    steps,             \* the statements executed so far, in execution order
    kenburns_clip,     \* a clip apply_kenburns returned and its last frame
    wrap_call          \* a call of the word wrap: its arguments and results

env == <<root_dir, audio_dir, images_dir, output_dir, music_files>>
args == <<bgm_path>>
locals == <<script, durations, total_duration, den, scene_clips, video,
            audio_tracks, srt_path>>
\* the state of the library functions when exercised on their own
pure == <<kenburns_clip, wrap_call>>
vars == <<env, args, pc, locals, result, callers, steps, pure>>

\* a frame's locals before its first statement
FreshLocals ==
    /\ script = <<>>
    /\ durations = EmptyDict
    /\ total_duration = 0
    /\ den = 1
    /\ scene_clips = <<>>
    /\ video = NoClip
    /\ audio_tracks = <<>>
    /\ srt_path = None

Init ==
    /\ root_dir \in RootDirs
    /\ audio_dir \in AudioDirs(ScriptSceneIds(root_dir))
    /\ images_dir \in ImageDirs
    /\ output_dir = EmptyDict
    /\ bgm_path \in {None, UserBgm}
    /\ music_files \in IF bgm_path = None THEN {EmptyDict} ELSE MusicFiles
    /\ pc = "load"
    /\ FreshLocals
    /\ result = None
    /\ callers = <<>>
    /\ steps = <<>>
    /\ kenburns_clip = NoClip
    /\ wrap_call = None

\* the executing call runs the statement named: depth is the number of calls
\* suspended below it, scene the scene a loop iteration works on, failed the
\* scenes whose TextClip raised
Event(step, scene, failed) ==
    [depth |-> Len(callers), step |-> step, scene |-> scene, failed |-> failed]

Did(step) == steps' = Append(steps, Event(step, 0, {}))

\* -------------------------------------------------------- duration planner
\* os.path.exists on a directory modelled as a dict
Exists(dir, name) == name \in DOMAIN dir

\* get_audio_duration: len(AudioSegment.from_file(path)) / 1000.0
get_audio_duration(dir, name) == AudioLen(dir[name])

\* the for/else over [".wav", ".mp3", ".ogg"]: the first existing per-scene
\* file, from the k-th extension on; None when the loop runs out
RECURSIVE FirstSceneAudio(_, _, _)
FirstSceneAudio(dir, sid, k) ==
    IF k > Len(Exts) THEN NoExt
    ELSE IF Exists(dir, SceneAudio(sid, Exts[k])) THEN Exts[k]
    ELSE FirstSceneAudio(dir, sid, k + 1)

\* mutant: the 3.0 s floor is dropped
EstimateDurationNoFloor(narration) == Seconds(Len(Split(narration))) \div 3

\* max(3.0, words / 3.0), in ticks
EstimateDuration(narration) ==
    LET words == Len(Split(narration))
    IN Max(Seconds(3), Seconds(words) \div 3)

\* one iteration of get_scene_durations' loop
SceneDuration(scene, dir) ==
    LET ext == FirstSceneAudio(dir, scene.scene_id, 1)
    IN IF ext # NoExt
       THEN get_audio_duration(dir, SceneAudio(scene.scene_id, ext))
       ELSE EstimateDuration(scene.narration)

\* get_scene_durations, after its first k scenes
RECURSIVE SceneDurationsUpTo(_, _, _)
SceneDurationsUpTo(scr, dir, k) ==
    IF k = 0 THEN EmptyDict
    ELSE Assign(SceneDurationsUpTo(scr, dir, k - 1),
                scr[k].scene_id, SceneDuration(scr[k], dir))

get_scene_durations(scr, dir) == SceneDurationsUpTo(scr, dir, Len(scr))

\* mutant: the scale factor comes out as 1
ScaleNumUnit(total) == total \div GCD(Seconds(MAX_DURATION), total)

\* durations = {k: v * scale}, scale = MAX_DURATION / total_duration, kept
\* exact: scale = sn/sd in lowest terms, the new values are over sd
ScaleNum(total) == Seconds(MAX_DURATION) \div GCD(Seconds(MAX_DURATION), total)
ScaleDen(total) == total \div GCD(Seconds(MAX_DURATION), total)

\* mutant: the budget test is inverted
NeedsRescaleInverted(total) == total < Seconds(MAX_DURATION)

NeedsRescale(total) == total > Seconds(MAX_DURATION)

\* ------------------------------------------------------------ assemble_video
\* script.json is missing: print and return None
ScriptNotFound ==
    /\ pc = "load"
    /\ Did("script_missing")
    /\ ~Exists(root_dir, ScriptJson)
    /\ pc' = "returned"
    /\ result' = None
    /\ UNCHANGED <<env, args, locals, callers>>
    /\ UNCHANGED pure

\* json.load(f) raises, or script['scenes'] does in the banner's print
LoadFails ==
    /\ pc = "load"
    /\ Did("load_failed")
    /\ Exists(root_dir, ScriptJson)
    /\ ~HasScenes(root_dir[ScriptJson])
    /\ pc' = "raised"
    /\ UNCHANGED <<env, args, locals, result, callers>>
    /\ UNCHANGED pure

LoadScript ==
    /\ pc = "load"
    /\ Did("load")
    /\ Exists(root_dir, ScriptJson)
    /\ HasScenes(root_dir[ScriptJson])
    /\ script' = root_dir[ScriptJson]
    /\ pc' = "plan"
    /\ UNCHANGED <<env, args, durations, total_duration, den, scene_clips,
                   video, audio_tracks, srt_path, result, callers>>
    /\ UNCHANGED pure

\* get_scene_durations raises KeyError: a scene without "scene_id", or one
\* without "narration" that has no recording either (the estimate reads it)
PlanRaises(scr, dir) ==
    \E k \in 1..Len(scr) :
      \/ scr[k].scene_id = NoSceneId
      \/ /\ FirstSceneAudio(dir, scr[k].scene_id, 1) = NoExt
         /\ scr[k].narration = NoNarration

\* Step 1 when get_scene_durations raises: nothing catches it
PlanFails ==
    /\ pc = "plan"
    /\ Did("plan_failed")
    /\ PlanRaises(script, audio_dir)
    /\ pc' = "raised"
    /\ UNCHANGED <<env, args, locals, result, callers>>
    /\ UNCHANGED pure

\* Step 1, first half: get_scene_durations and the total
PlanDurations ==
    /\ pc = "plan"
    /\ Did("plan")
    /\ ~PlanRaises(script, audio_dir)
    /\ durations' = get_scene_durations(script, audio_dir)
    /\ total_duration' = SumValues(durations')
    /\ pc' = "fit"
    /\ UNCHANGED <<env, args, script, den, scene_clips, video, audio_tracks,
                   srt_path, result, callers>>
    /\ UNCHANGED pure

\* Step 1, second half: the MAX_DURATION rescale
BudgetFit ==
    /\ pc = "fit"
    /\ Did("fit")
    /\ IF NeedsRescale(total_duration)
       THEN /\ durations' = [k \in DOMAIN durations |->
                                durations[k] * ScaleNum(total_duration)]
            /\ den' = ScaleDen(total_duration)
            /\ total_duration' = SumValues(durations')
       ELSE UNCHANGED <<durations, den, total_duration>>
    /\ pc' = "render"
    /\ UNCHANGED <<env, args, script, scene_clips, video, audio_tracks,
                   srt_path, result, callers>>
    /\ UNCHANGED pure

\* mutant: the substitute clip gets a fixed 5 s instead of the scene's duration
ColorClipFixed(size, color, duration) ==
    [kind |-> "color", size |-> size, color |-> color, image |-> None,
     effect |-> NoExt, fps |-> 0, duration |-> Seconds(5), closed |-> FALSE]

\* the missing-image substitute: ColorClip(size, color=(0, 0, 0), duration)
ColorClip(size, color, duration) ==
    [kind |-> "color", size |-> size, color |-> color, image |-> None,
     effect |-> NoExt, fps |-> 0, duration |-> duration, closed |-> FALSE]

\* apply_kenburns: the clip it returns has the requested duration and fps and
\* frames resized to video_size
apply_kenburns(image_path, duration, effect, video_size, fps) ==
    [kind |-> "kenburns", size |-> video_size, color |-> <<>>,
     image |-> image_path, effect |-> effect, fps |-> fps,
     duration |-> duration, closed |-> FALSE]

\* scene.get("effect", "slow_zoom_in"): the explored scripts name no effect
SceneEffect(scene) == "slow_zoom_in"

\* Step 2, one iteration of the loop over script["scenes"]
RenderScene ==
    /\ pc = "render"
    /\ Len(scene_clips) < Len(script)
    /\ LET scene == script[Len(scene_clips) + 1]
           sid == scene.scene_id
           duration == durations[sid]
           clip == IF SceneImage(sid) \notin images_dir
                   THEN ColorClip(<<VIDEO_WIDTH, VIDEO_HEIGHT>>, <<0, 0, 0>>, duration)
                   ELSE apply_kenburns(SceneImage(sid), duration, SceneEffect(scene),
                                       <<VIDEO_WIDTH, VIDEO_HEIGHT>>, VIDEO_FPS)
       IN scene_clips' = Append(scene_clips, clip)
    /\ steps' = Append(steps, Event("render", Len(scene_clips) + 1, {}))
    /\ UNCHANGED <<env, args, pc, script, durations, total_duration, den, video,
                   audio_tracks, srt_path, result, callers>>
    /\ UNCHANGED pure

\* mutant: the track ends where its last clip would end if it started at 0
ClipsDurationLast(clips, k) == IF k = 0 THEN 0 ELSE clips[k].duration

\* sum of the first k clips' durations
RECURSIVE ClipsDuration(_, _)
ClipsDuration(clips, k) ==
    IF k = 0 THEN 0 ELSE ClipsDuration(clips, k - 1) + clips[k].duration

\* mutant: the clips are laid out last scene first
concatenate_reversed(clips, fps) ==
    LET n == Len(clips)
        rev == [i \in 1..n |-> clips[n + 1 - i]]
    IN [kind |-> "video",
        track |-> [i \in 1..n |->
                      [clip |-> n + 1 - i,
                       start |-> ClipsDuration(rev, i - 1),
                       end |-> ClipsDuration(rev, i)]],
        duration |-> ClipsDuration(rev, n),
        fps |-> fps,
        audio |-> NoClip,
        subtitles |-> <<>>,
        closed |-> FALSE]

\* concatenate_videoclips(clips, method="compose") and set_fps: clip i is
\* placed at the end of clip i-1, the result lasts until the last clip's end
concatenate_videoclips(clips, fps) ==
    [kind |-> "video",
     track |-> [i \in 1..Len(clips) |->
                   [clip |-> i,
                    start |-> ClipsDuration(clips, i - 1),
                    end |-> ClipsDuration(clips, i)]],
     duration |-> ClipsDuration(clips, Len(clips)),
     fps |-> fps,
     audio |-> NoClip,
     subtitles |-> <<>>,
     closed |-> FALSE]

\* end of the Step 2 loop: concatenate all scene clips
ConcatenateScenes ==
    /\ pc = "render"
    /\ Did("concatenate")
    /\ Len(scene_clips) = Len(script)
    /\ video' = concatenate_videoclips(scene_clips, VIDEO_FPS)
    /\ pc' = "narration"
    /\ UNCHANGED <<env, args, script, durations, total_duration, den,
                   scene_clips, audio_tracks, srt_path, result, callers>>
    /\ UNCHANGED pure

\* concatenate_scene_audio's first loop: the pre-made narration to use, if any
FullNarration(dir) ==
    IF Exists(dir, NarrationMp3) THEN NarrationMp3
    ELSE IF Exists(dir, NarrationWav) THEN NarrationWav
    ELSE None

\* mutant: the last existing extension is taken, not the first
RECURSIVE SegmentExtLast(_, _, _)
SegmentExtLast(dir, sid, k) ==
    IF k > Len(Exts) THEN NoExt
    ELSE LET later == SegmentExtLast(dir, sid, k + 1)
         IN IF later # NoExt THEN later
            ELSE IF Exists(dir, SceneAudio(sid, Exts[k])) THEN Exts[k]
            ELSE NoExt

\* concatenate_scene_audio's inner loop over [".wav", ".mp3", ".ogg"] with
\* its break, from the k-th extension on: the file that becomes the segment
RECURSIVE SegmentExt(_, _, _)
SegmentExt(dir, sid, k) ==
    IF k > Len(Exts) THEN NoExt
    ELSE IF Exists(dir, SceneAudio(sid, Exts[k])) THEN Exts[k]
    ELSE SegmentExt(dir, sid, k + 1)

\* mutant: each segment is put in front of the combined audio
RECURSIVE CombinedPrepended(_, _, _)
CombinedPrepended(scr, dir, k) ==
    IF k = 0 THEN <<>>
    ELSE LET ext == SegmentExt(dir, scr[k].scene_id, 1)
         IN (IF ext # NoExt THEN dir[SceneAudio(scr[k].scene_id, ext)] ELSE <<>>)
            \o CombinedPrepended(scr, dir, k - 1)

\* concatenate_scene_audio's second loop, after its first k scenes:
\* combined += segment for the first existing file of each scene
RECURSIVE CombinedUpTo(_, _, _)
CombinedUpTo(scr, dir, k) ==
    IF k = 0 THEN <<>>
    ELSE LET ext == SegmentExt(dir, scr[k].scene_id, 1)
         IN CombinedUpTo(scr, dir, k - 1)
            \o (IF ext # NoExt THEN dir[SceneAudio(scr[k].scene_id, ext)] ELSE <<>>)

FoundAny(scr, dir) ==
    \E k \in 1..Len(scr) : SegmentExt(dir, scr[k].scene_id, 1) # NoExt

\* concatenate_scene_audio's return value
NarrationPath(scr, dir, output_path) ==
    IF FullNarration(dir) # None THEN FullNarration(dir)
    ELSE IF FoundAny(scr, dir) THEN output_path
    ELSE None

\* the audio directory after concatenate_scene_audio: combined.export(output_path)
AfterConcatenate(scr, dir, output_path) ==
    IF FullNarration(dir) = None /\ FoundAny(scr, dir)
    THEN Assign(dir, output_path, CombinedUpTo(scr, dir, Len(scr)))
    ELSE dir

\* AudioFileClip(path) on audio data, durations over d
AudioFileClip(path, data, d) ==
    [kind |-> "audio", file |-> path, data |-> data, loops |-> 1,
     duration |-> AudioLen(data) * d, ops |-> <<>>]

\* clip.subclip(0, t_end): the clip ends at t_end
Subclip(clip, t_end) ==
    [clip EXCEPT !.duration = t_end, !.ops = Append(@, "subclip")]

\* mutant: the narration is never trimmed
TrimNarrationNever(narration_clip, video_duration) == narration_clip

\* "Trim to match video duration"
TrimNarration(narration_clip, video_duration) ==
    IF narration_clip.duration > video_duration
    THEN Subclip(narration_clip, video_duration)
    ELSE narration_clip

\* Step 3: narration
AddNarration ==
    /\ pc = "narration"
    /\ Did("narration")
    /\ LET narration_path == NarrationPath(script, audio_dir, NarrationCombined)
           dir == AfterConcatenate(script, audio_dir, NarrationCombined)
           narration_clip == AudioFileClip(narration_path, dir[narration_path], den)
       IN /\ audio_dir' = dir
          /\ audio_tracks' =
               IF narration_path = None THEN <<>>
               ELSE <<TrimNarration(narration_clip, video.duration)>>
    /\ pc' = "music"
    /\ UNCHANGED <<root_dir, images_dir, output_dir, music_files, args, script,
                   durations, total_duration, den, scene_clips, video, srt_path,
                   result, callers>>
    /\ UNCHANGED pure

\* os.path.exists / AudioFileClip on a music path: the user's file outside
\* the project, or str(dirs["root"] / "bgm.mp3")
MusicExists(path) ==
    \/ Exists(music_files, path)
    \/ path = DefaultBgm /\ Exists(root_dir, DefaultBgm)

MusicData(path) ==
    IF Exists(music_files, path) THEN music_files[path] ELSE root_dir[DefaultBgm]

\* mutant: one repetition too few
LoopsNeededFloor(video_duration, bgm_duration) == video_duration \div bgm_duration

\* int(video.duration / bgm_clip.duration) + 1
LoopsNeeded(video_duration, bgm_duration) == (video_duration \div bgm_duration) + 1

\* concatenate_audioclips([clip] * n)
LoopClip(clip, n) ==
    [clip EXCEPT !.loops = n, !.duration = n * @, !.ops = Append(@, "loop")]

\* volumex, audio_fadein, audio_fadeout: envelopes over an unchanged duration
Volumex(clip, volume) == [clip EXCEPT !.ops = Append(@, "volumex")]
FadeIn(clip, secs) == [clip EXCEPT !.ops = Append(@, "fadein")]
FadeOut(clip, secs) == [clip EXCEPT !.ops = Append(@, "fadeout")]

\* the background-music clip of Step 4
BgmClip(path, video_duration, d) ==
    LET bgm_clip == AudioFileClip(path, MusicData(path), d)
        looped == IF bgm_clip.duration < video_duration
                  THEN LoopClip(bgm_clip, LoopsNeeded(video_duration, bgm_clip.duration))
                  ELSE bgm_clip
        trimmed == Subclip(looped, video_duration)
    IN FadeOut(FadeIn(Volumex(trimmed, BGM_VOLUME), AUDIO_FADE_IN), AUDIO_FADE_OUT)

\* Step 4, the if branch: bgm_path is given and exists
AddBackgroundMusic ==
    /\ pc = "music"
    /\ Did("music")
    /\ bgm_path # None /\ MusicExists(bgm_path)
    /\ audio_tracks' = Append(audio_tracks, BgmClip(bgm_path, video.duration, den))
    /\ pc' = "mix"
    /\ UNCHANGED <<env, args, script, durations, total_duration, den, scene_clips,
                   video, srt_path, result, callers>>
    /\ UNCHANGED pure

\* the locals a suspended call of assemble_video keeps alive
Frame ==
    [bgm_path |-> bgm_path, script |-> script, durations |-> durations,
     total_duration |-> total_duration, den |-> den, scene_clips |-> scene_clips,
     video |-> video, audio_tracks |-> audio_tracks, srt_path |-> srt_path]

\* mutant: bgm.mp3 in the project root is not picked up
IgnoreDefaultBgm ==
    /\ pc = "music"
    /\ Did("no_music")
    /\ ~(bgm_path # None /\ MusicExists(bgm_path))
    /\ Exists(root_dir, DefaultBgm)
    /\ pc' = "mix"
    /\ UNCHANGED <<env, args, locals, result, callers>>
    /\ UNCHANGED pure

\* Step 4, the else branch with bgm.mp3 in the project root:
\* return assemble_video(project_name, bgm_path=default_bgm, ...)
UseDefaultBgm ==
    /\ pc = "music"
    /\ Did("reenter")
    /\ ~(bgm_path # None /\ MusicExists(bgm_path))
    /\ Exists(root_dir, DefaultBgm)
    /\ callers' = Append(callers, Frame)
    /\ bgm_path' = DefaultBgm
    /\ pc' = "load"
    /\ script' = <<>>
    /\ durations' = EmptyDict
    /\ total_duration' = 0
    /\ den' = 1
    /\ scene_clips' = <<>>
    /\ video' = NoClip
    /\ audio_tracks' = <<>>
    /\ srt_path' = None
    /\ UNCHANGED <<env, result>>
    /\ UNCHANGED pure

\* Step 4, the else branch without bgm.mp3
NoBackgroundMusic ==
    /\ pc = "music"
    /\ Did("no_music")
    /\ ~(bgm_path # None /\ MusicExists(bgm_path))
    /\ ~Exists(root_dir, DefaultBgm)
    /\ pc' = "mix"
    /\ UNCHANGED <<env, args, locals, result, callers>>
    /\ UNCHANGED pure

CompositeAudioClip(tracks) ==
    [kind |-> "composite", tracks |-> tracks]

\* mutant: only the first track is attached
SetAudioFirst(v, tracks) ==
    IF Len(tracks) = 0 THEN v ELSE [v EXCEPT !.audio = tracks[1]]

\* "Combine audio tracks": video.set_audio of the one track or of the composite
SetAudio(v, tracks) ==
    IF Len(tracks) = 0 THEN v
    ELSE IF Len(tracks) = 1 THEN [v EXCEPT !.audio = tracks[1]]
    ELSE [v EXCEPT !.audio = CompositeAudioClip(tracks)]

CombineAudio ==
    /\ pc = "mix"
    /\ Did("mix")
    /\ video' = SetAudio(video, audio_tracks)
    /\ pc' = "subtitles"
    /\ UNCHANGED <<env, args, script, durations, total_duration, den, scene_clips,
                   audio_tracks, srt_path, result, callers>>
    /\ UNCHANGED pure

\* 0.1 s steps, in ticks
Tenths(n) == n * 3

\* mutant: the running length leaves out the joining spaces
RECURSIVE WrapWithoutSpaces(_, _, _)
WrapWithoutSpaces(words, k, max_chars) ==
    IF k = 0 THEN [lines |-> <<>>, current |-> <<>>, length |-> 0]
    ELSE LET st == WrapWithoutSpaces(words, k - 1, max_chars)
             w == words[k]
         IN IF st.length + w > max_chars /\ st.current # <<>>
            THEN [lines |-> Append(st.lines, st.current),
                  current |-> <<w>>, length |-> w]
            ELSE [lines |-> st.lines,
                  current |-> Append(st.current, w), length |-> st.length + w]

\* the loop of _wrap_text after the first k words: the finished lines, the
\* line being filled, and the running length
RECURSIVE WrapUpTo(_, _, _)
WrapUpTo(words, k, max_chars) ==
    IF k = 0 THEN [lines |-> <<>>, current |-> <<>>, length |-> 0]
    ELSE LET st == WrapUpTo(words, k - 1, max_chars)
             w == words[k]
         IN IF st.length + w + 1 > max_chars /\ st.current # <<>>
            THEN [lines |-> Append(st.lines, st.current),
                  current |-> <<w>>, length |-> w]
            ELSE [lines |-> st.lines,
                  current |-> Append(st.current, w), length |-> st.length + w + 1]

WrapWords(text, max_chars) ==
    LET st == WrapUpTo(Split(text), Len(Split(text)), max_chars)
    IN IF st.current # <<>> THEN Append(st.lines, st.current) ELSE st.lines

\* a line is the sequence of its words, joined by single spaces; the result
\* is the sequence of lines
_wrap_text(text, max_chars) == WrapWords(text, max_chars)

\* the loop of _wrap_subtitle_text after the first k words
RECURSIVE SubtitleWrapUpTo(_, _, _)
SubtitleWrapUpTo(words, k, max_chars) ==
    IF k = 0 THEN [lines |-> <<>>, current_line |-> <<>>, current_len |-> 0]
    ELSE LET st == SubtitleWrapUpTo(words, k - 1, max_chars)
             word == words[k]
         IN IF st.current_len + word + 1 > max_chars /\ st.current_line # <<>>
            THEN [lines |-> Append(st.lines, st.current_line),
                  current_line |-> <<word>>, current_len |-> word]
            ELSE [lines |-> st.lines,
                  current_line |-> Append(st.current_line, word),
                  current_len |-> st.current_len + word + 1]

_wrap_subtitle_text(text, max_chars) ==
    LET words == Split(text)
        st == SubtitleWrapUpTo(words, Len(words), max_chars)
    IN IF st.current_line # <<>> THEN Append(st.lines, st.current_line) ELSE st.lines

\* durations.get(sid, default)
DictGet(d, key, default) == IF key \in DOMAIN d THEN d[key] ELSE default

\* mutant: the timeline cursor never advances
CursorStuck(scr, durs, d, k) == 0

\* build_subtitle_clips' timeline cursor before the k-th scene
RECURSIVE CursorBefore(_, _, _, _)
CursorBefore(scr, durs, d, k) ==
    IF k = 1 THEN 0
    ELSE CursorBefore(scr, durs, d, k - 1)
         + DictGet(durs, scr[k - 1].scene_id, Seconds(5) * d)

\* mutant: the cue fills the whole scene, without the 0.1 s insets
SubtitleClipNoInset(scr, durs, d, k) ==
    [scene |-> k,
     text |-> _wrap_text(scr[k].narration, 50),
     duration |-> DictGet(durs, scr[k].scene_id, Seconds(5) * d),
     start |-> CursorBefore(scr, durs, d, k)]

\* the TextClip of the k-th scene
SubtitleClip(scr, durs, d, k) ==
    LET duration == DictGet(durs, scr[k].scene_id, Seconds(5) * d)
    IN [scene |-> k,
        text |-> _wrap_text(scr[k].narration, 50),
        duration |-> duration - Tenths(2) * d,
        start |-> CursorBefore(scr, durs, d, k) + Tenths(1) * d]

\* mutant: a failing cue discards the cues made before it
RECURSIVE SubtitleClipsDiscarded(_, _, _, _, _)
SubtitleClipsDiscarded(scr, durs, d, failing, k) ==
    IF k = 0 \/ k \in failing THEN <<>>
    ELSE Append(SubtitleClipsDiscarded(scr, durs, d, failing, k - 1),
                SubtitleClip(scr, durs, d, k))

\* build_subtitle_clips, after its first k scenes; TextClip raises for the
\* scenes in failing, whose cue is skipped
RECURSIVE SubtitleClipsUpTo(_, _, _, _, _)
SubtitleClipsUpTo(scr, durs, d, failing, k) ==
    IF k = 0 THEN <<>>
    ELSE LET before == SubtitleClipsUpTo(scr, durs, d, failing, k - 1)
         IN IF k \in failing THEN before
            ELSE Append(before, SubtitleClip(scr, durs, d, k))

build_subtitle_clips(scr, durs, d, failing) ==
    SubtitleClipsUpTo(scr, durs, d, failing, Len(scr))

\* scene["narration"] raises KeyError for some scene
LacksNarration(scr) == \E k \in 1..Len(scr) : scr[k].narration = NoNarration

\* Step 5 when build_subtitle_clips raises outside its own try: the except of
\* line 290 prints and the video stays without captions
SubtitlesFail ==
    /\ pc = "subtitles"
    /\ Did("subtitles_failed")
    /\ LacksNarration(script)
    /\ pc' = "srt"
    /\ UNCHANGED <<env, args, locals, result, callers>>
    /\ UNCHANGED pure

\* Step 5 when called with include_subtitles (an argument nothing else
\* reads): CompositeVideoClip([video] + sub_clips)
AddSubtitles ==
    /\ pc = "subtitles"
    /\ ~LacksNarration(script)
    /\ \E failing \in {f \in SUBSET (1..Len(script)) : Cardinality(f) <= 1} :
         LET sub_clips == build_subtitle_clips(script, durations, den, failing)
         IN /\ video' = IF sub_clips # <<>>
                        THEN [video EXCEPT !.subtitles = sub_clips]
                        ELSE video
            /\ steps' = Append(steps, Event("subtitles", 0, failing))
    /\ pc' = "srt"
    /\ UNCHANGED <<env, args, script, durations, total_duration, den, scene_clips,
                   audio_tracks, srt_path, result, callers>>
    /\ UNCHANGED pure

\* Step 5 when called without include_subtitles
SkipSubtitles ==
    /\ pc = "subtitles"
    /\ Did("no_subtitles")
    /\ pc' = "srt"
    /\ UNCHANGED <<env, args, locals, result, callers>>
    /\ UNCHANGED pure

\* format_srt_time: HH:MM:SS,mmm of a time in ticks
format_srt_time(t) ==
    [hours |-> t \div Seconds(3600),
     minutes |-> (t % Seconds(3600)) \div Seconds(60),
     secs |-> (t % Seconds(60)) \div Seconds(1),
     millis |-> ((t % Seconds(1)) * 1000) \div Seconds(1)]

\* generate_scene_level_srt's cursor before the k-th scene
RECURSIVE SrtCursorBefore(_, _, _)
SrtCursorBefore(scr, durs, k) ==
    IF k = 1 THEN 0
    ELSE SrtCursorBefore(scr, durs, k - 1)
         + DictGet(durs, scr[k - 1].scene_id, Seconds(8))

\* generate_scene_level_srt: one entry per scene, in script order
generate_scene_level_srt(scr, durs, gap) ==
    [k \in 1..Len(scr) |->
        LET current_time == SrtCursorBefore(scr, durs, k)
            duration == DictGet(durs, scr[k].scene_id, Seconds(8))
        IN [index |-> scr[k].scene_id,
            start |-> format_srt_time(current_time),
            end |-> format_srt_time(current_time + duration - gap),
            text |-> _wrap_subtitle_text(scr[k].narration, 45)]]

\* generate_srt_from_script_only's durations, after the first k scenes
RECURSIVE EstimatesUpTo(_, _)
EstimatesUpTo(scr, k) ==
    IF k = 0 THEN EmptyDict
    ELSE Assign(EstimatesUpTo(scr, k - 1), scr[k].scene_id,
                EstimateDuration(scr[k].narration))

generate_srt_from_script_only(scr) ==
    generate_scene_level_srt(scr, EstimatesUpTo(scr, Len(scr)), Tenths(1))

\* mutant: the sidecar is timed with the budget-fitted map of the video
BudgetFittedUpTo(scr, dir, k) ==
    [sid \in DOMAIN durations |-> durations[sid] \div den]

\* generate_srt_from_audio_files' durations, after the first k scenes: only
\* scene_NN.wav is measured
RECURSIVE WavDurationsUpTo(_, _, _)
WavDurationsUpTo(scr, dir, k) ==
    IF k = 0 THEN EmptyDict
    ELSE LET sid == scr[k].scene_id
         IN Assign(WavDurationsUpTo(scr, dir, k - 1), sid,
                   IF Exists(dir, SceneAudio(sid, ".wav"))
                   THEN get_audio_duration(dir, SceneAudio(sid, ".wav"))
                   ELSE EstimateDuration(scr[k].narration))

generate_srt_from_audio_files(scr, dir) ==
    generate_scene_level_srt(scr, WavDurationsUpTo(scr, dir, Len(scr)), Tenths(1))

SubtitlesSrt == <<"subtitles", 0, ".srt">>
FinalVideoMp4 == <<"final_video", 0, ".mp4">>

\* Step 6 when a scene lacks "narration": generate_srt_from_audio_files
\* raises KeyError, in its estimate or in generate_scene_level_srt, before
\* save_srt
SrtFails ==
    /\ pc = "srt"
    /\ Did("srt_failed")
    /\ LacksNarration(script)
    /\ pc' = "raised"
    /\ UNCHANGED <<env, args, locals, result, callers>>
    /\ UNCHANGED pure

\* Step 6: the sidecar file
GenerateSrt ==
    /\ pc = "srt"
    /\ Did("srt")
    /\ ~LacksNarration(script)
    /\ LET srt_content ==
             IF ~\E k \in 1..Len(script) :
                    Exists(audio_dir, SceneAudio(script[k].scene_id, ".wav"))
             THEN generate_srt_from_script_only(script)
             ELSE generate_srt_from_audio_files(script, audio_dir)
       IN output_dir' = Assign(output_dir, SubtitlesSrt, srt_content)
    /\ srt_path' = SubtitlesSrt
    /\ pc' = "export"
    /\ UNCHANGED <<root_dir, audio_dir, images_dir, music_files, args, script,
                   durations, total_duration, den, scene_clips, video,
                   audio_tracks, result, callers>>
    /\ UNCHANGED pure

\* the file write_videofile encodes the video into
MediaFile(complete) == [video |-> video, den |-> den, complete |-> complete]

\* Step 7: video.write_videofile(output_path, ...); preview only picks the
\* encoder's frame rate, bitrate and preset
Export ==
    /\ pc = "export"
    /\ Did("export")
    /\ output_dir' = Assign(output_dir, FinalVideoMp4, MediaFile(TRUE))
    /\ pc' = "cleanup"
    /\ UNCHANGED <<root_dir, audio_dir, images_dir, music_files, args, locals,
                   result, callers>>
    /\ UNCHANGED pure

\* Step 7 when write_videofile raises (the encoder fails): the exception is
\* not caught; the encoder may have started the file or not
ExportFails ==
    /\ pc = "export"
    /\ Did("export_failed")
    /\ \/ output_dir' = Assign(output_dir, FinalVideoMp4, MediaFile(FALSE))
       \/ UNCHANGED output_dir
    /\ pc' = "raised"
    /\ UNCHANGED <<root_dir, audio_dir, images_dir, music_files, args, locals,
                   result, callers>>
    /\ UNCHANGED pure

\* "Cleanup" and return output_path
Cleanup ==
    /\ pc = "cleanup"
    /\ Did("cleanup")
    /\ video' = [video EXCEPT !.closed = TRUE]
    /\ scene_clips' = [i \in 1..Len(scene_clips) |->
                          [scene_clips[i] EXCEPT !.closed = TRUE]]
    /\ result' = FinalVideoMp4
    /\ pc' = "returned"
    /\ UNCHANGED <<env, args, script, durations, total_duration, den,
                   audio_tracks, srt_path, callers>>
    /\ UNCHANGED pure

\* mutant: after the nested call the caller carries on with its own Step 5
ReturnAndContinue ==
    /\ pc = "returned"
    /\ Did("return")
    /\ callers # <<>>
    /\ LET frame == callers[Len(callers)]
       IN /\ bgm_path' = frame.bgm_path
          /\ script' = frame.script
          /\ durations' = frame.durations
          /\ total_duration' = frame.total_duration
          /\ den' = frame.den
          /\ scene_clips' = frame.scene_clips
          /\ video' = frame.video
          /\ audio_tracks' = frame.audio_tracks
          /\ srt_path' = frame.srt_path
    /\ callers' = SubSeq(callers, 1, Len(callers) - 1)
    /\ pc' = "mix"
    /\ UNCHANGED <<env, result>>
    /\ UNCHANGED pure

\* the nested call's value is the caller's return value
ReturnToCaller ==
    /\ pc = "returned"
    /\ Did("return")
    /\ callers # <<>>
    /\ LET frame == callers[Len(callers)]
       IN /\ bgm_path' = frame.bgm_path
          /\ script' = frame.script
          /\ durations' = frame.durations
          /\ total_duration' = frame.total_duration
          /\ den' = frame.den
          /\ scene_clips' = frame.scene_clips
          /\ video' = frame.video
          /\ audio_tracks' = frame.audio_tracks
          /\ srt_path' = frame.srt_path
    /\ callers' = SubSeq(callers, 1, Len(callers) - 1)
    /\ UNCHANGED <<env, pc, result>>
    /\ UNCHANGED pure

\* the exception leaves the nested call through the caller's return statement
Unwind ==
    /\ pc = "raised"
    /\ callers # <<>>
    /\ Did("unwind")
    /\ LET frame == callers[Len(callers)]
       IN /\ bgm_path' = frame.bgm_path
          /\ script' = frame.script
          /\ durations' = frame.durations
          /\ total_duration' = frame.total_duration
          /\ den' = frame.den
          /\ scene_clips' = frame.scene_clips
          /\ video' = frame.video
          /\ audio_tracks' = frame.audio_tracks
          /\ srt_path' = frame.srt_path
    /\ callers' = SubSeq(callers, 1, Len(callers) - 1)
    /\ UNCHANGED <<env, pc, result>>
    /\ UNCHANGED pure

Next ==
    \/ ScriptNotFound
    \/ LoadFails
    \/ LoadScript
    \/ PlanFails
    \/ PlanDurations
    \/ BudgetFit
    \/ RenderScene
    \/ ConcatenateScenes
    \/ AddNarration
    \/ AddBackgroundMusic
    \/ UseDefaultBgm
    \/ NoBackgroundMusic
    \/ CombineAudio
    \/ AddSubtitles
    \/ SubtitlesFail
    \/ SkipSubtitles
    \/ SrtFails
    \/ GenerateSrt
    \/ Export
    \/ ExportFails
    \/ Cleanup
    \/ ReturnToCaller
    \/ Unwind

Spec == Init /\ [][Next]_vars

\* ---------------------------------------------------------------- kenburns
\* The frame arithmetic of apply_kenburns, exact: a real number is a pair
\* <<n, d>> standing for n/d with d > 0 (floats add rounding).

\* the main program before any call: what the library functions leave alone
Idle ==
    /\ root_dir = EmptyDict
    /\ audio_dir = EmptyDict
    /\ images_dir = {}
    /\ output_dir = EmptyDict
    /\ music_files = EmptyDict
    /\ bgm_path = None
    /\ pc = "idle"
    /\ FreshLocals
    /\ result = None
    /\ callers = <<>>
    /\ steps = <<>>

\* longest explored clip, in frames of 1/VIDEO_FPS s (ticks)
MaxFrames == 8

\* the effect enumeration, and a value outside it
Effects ==
    {"slow_zoom_in", "slow_zoom_out", "pan_left", "pan_right", "pan_up",
     "pan_down", "static"}
EffectValues == Effects \cup {"dolly"}

\* zoom_range = (1.0, 1.15), in twentieths
zoom_range == <<<<20, 20>>, <<23, 20>>>>

\* oversized = (int(w * scale_factor), int(h * scale_factor)), scale_factor 1.3
oversized(video_size) == <<(video_size[1] * 13) \div 10, (video_size[2] * 13) \div 10>>

\* mutant: the second branch without its halving, 1 - pow(-2 * t + 2, 3)
EaseUnhalved(p) ==
    LET n == p[1]
        d == p[2]
    IN IF 2 * n < d
       THEN <<4 * n * n * n, d * d * d>>
       ELSE <<d * d * d - 8 * (d - n) * (d - n) * (d - n), d * d * d>>

\* _ease_in_out(t): 4t^3 below 0.5, else 1 - (-2t + 2)^3 / 2, for t = n/d
_ease_in_out(p) ==
    LET n == p[1]
        d == p[2]
    IN IF 2 * n < d
       THEN <<4 * n * n * n, d * d * d>>
       ELSE <<d * d * d - 4 * (d - n) * (d - n) * (d - n), d * d * d>>

\* t / max(duration, 0.001), t and duration in ticks (0.001 s = 3/100 tick)
RawProgress(t, duration) ==
    IF duration * 100 >= 3 THEN <<t, duration>> ELSE <<t * 100, 3>>

\* the zoom factor of a frame with eased progress e
FrameZoom(effect, e) ==
    LET z0 == zoom_range[1][1]
        z1 == zoom_range[2][1]
        q == zoom_range[1][2]
    IN IF effect = "slow_zoom_in" THEN <<z0 * e[2] + (z1 - z0) * e[1], q * e[2]>>
       ELSE IF effect = "slow_zoom_out" THEN <<z1 * e[2] - (z1 - z0) * e[1], q * e[2]>>
       ELSE IF effect \in {"pan_left", "pan_right", "pan_up", "pan_down"}
       THEN <<z0 + z1, 2 * q>>
       ELSE <<21, 20>>

\* o / 2 + sign * (o * 0.08) * (1 - e): a panned coordinate of the centre
Panned(o, sign, e) ==
    <<25 * o * e[2] + sign * 4 * o * (e[2] - e[1]), 50 * e[2]>>

\* mutant: pan_right starts on the same side as pan_left
FrameCentreSameSide(effect, e, ow, oh) ==
    IF effect \in {"pan_left", "pan_right"} THEN <<Panned(ow, 1, e), <<oh, 2>>>>
    ELSE IF effect = "pan_up" THEN <<<<ow, 2>>, Panned(oh, 1, e)>>
    ELSE IF effect = "pan_down" THEN <<<<ow, 2>>, Panned(oh, -1, e)>>
    ELSE <<<<ow, 2>>, <<oh, 2>>>>

\* (cx, cy) of a frame with eased progress e
FrameCentre(effect, e, ow, oh) ==
    IF effect = "pan_left" THEN <<Panned(ow, 1, e), <<oh, 2>>>>
    ELSE IF effect = "pan_right" THEN <<Panned(ow, -1, e), <<oh, 2>>>>
    ELSE IF effect = "pan_up" THEN <<<<ow, 2>>, Panned(oh, 1, e)>>
    ELSE IF effect = "pan_down" THEN <<<<ow, 2>>, Panned(oh, -1, e)>>
    ELSE <<<<ow, 2>>, <<oh, 2>>>>

\* mutant: the window's corner is put at the centre, unclamped
CornerAtCentre(c, crop, o) == c[1] \div c[2]

\* int(max(0, min(c - crop / 2, o - crop)))
ClampedCorner(c, crop, o) ==
    Max(0, Min(2 * c[1] - crop * c[2], (o - crop) * 2 * c[2])) \div (2 * c[2])

\* make_frame(t) of the clip apply_kenburns(_, duration, effect, video_size)
make_frame(t, duration, effect, video_size) ==
    LET w == video_size[1]
        h == video_size[2]
        ow == oversized(video_size)[1]
        oh == oversized(video_size)[2]
        progress == _ease_in_out(RawProgress(t, duration))
        zoom == FrameZoom(effect, progress)
        centre == FrameCentre(effect, progress, ow, oh)
        crop_w == (w * zoom[2]) \div zoom[1]
        crop_h == (h * zoom[2]) \div zoom[1]
        x1 == ClampedCorner(centre[1], crop_w, ow)
        y1 == ClampedCorner(centre[2], crop_h, oh)
        x2 == x1 + crop_w
        y2 == y1 + crop_h
        \* img_array[y1:y2, x1:x2]: numpy cuts a slice at the array's edge
        cropped == <<Max(0, Min(x2, ow) - Min(x1, ow)), Max(0, Min(y2, oh) - Min(y1, oh))>>
    IN [t |-> t, progress |-> progress, zoom |-> zoom, cx |-> centre[1],
        cy |-> centre[2], crop_w |-> crop_w, crop_h |-> crop_h,
        x1 |-> x1, y1 |-> y1, x2 |-> x2, y2 |-> y2, cropped |-> cropped,
        \* Image.fromarray(cropped).resize((w, h)) needs a non-empty crop
        size |-> IF cropped[1] > 0 /\ cropped[2] > 0 THEN <<w, h>> ELSE <<0, 0>>]

NoFrame == [t |-> -1]

\* a clip of every effect value and every length up to MaxFrames, no frame
\* made yet
KenBurnsInit ==
    /\ Idle
    /\ wrap_call = None
    /\ kenburns_clip \in
         {[effect |-> e, duration |-> d, video_size |-> <<VIDEO_WIDTH, VIDEO_HEIGHT>>,
           frame |-> NoFrame] : e \in EffectValues, d \in 0..MaxFrames}

\* the encoder asks the clip for the frame at a time t in [0, duration]
MakeFrame ==
    /\ \E t \in 0..kenburns_clip.duration :
         kenburns_clip' =
           [kenburns_clip EXCEPT !.frame =
              make_frame(t, kenburns_clip.duration, kenburns_clip.effect,
                         kenburns_clip.video_size)]
    /\ UNCHANGED <<env, args, pc, locals, result, callers, steps, wrap_call>>

KenBurnsNext == MakeFrame

KenBurnsSpec == KenBurnsInit /\ [][KenBurnsNext]_vars

\* --------------------------------------------------------------- word wrap
\* longest explored text, in tokens
MaxTokens == 3

\* tokens: whitespace, words shorter than a line, a word longer than one
Tokens == {0, 3, 20, 22, 44, 51}

WrapTexts == SeqsUpTo(Tokens, MaxTokens)

\* a text and a width, not wrapped by either function yet
WrapInit ==
    /\ Idle
    /\ kenburns_clip = NoClip
    /\ wrap_call \in {[text |-> x, max_chars |-> m, done |-> {},
                       overlay |-> <<>>, sidecar |-> <<>>] :
                         x \in WrapTexts, m \in {45, 50}}

\* _wrap_text(text, max_chars), the overlay's wrap
WrapOverlay ==
    /\ "overlay" \notin wrap_call.done
    /\ wrap_call' = [wrap_call EXCEPT
                       !.overlay = _wrap_text(wrap_call.text, wrap_call.max_chars),
                       !.done = @ \cup {"overlay"}]
    /\ UNCHANGED <<env, args, pc, locals, result, callers, steps, kenburns_clip>>

\* _wrap_subtitle_text(text, max_chars), the sidecar's wrap
WrapSidecar ==
    /\ "sidecar" \notin wrap_call.done
    /\ wrap_call' = [wrap_call EXCEPT
                       !.sidecar = _wrap_subtitle_text(wrap_call.text, wrap_call.max_chars),
                       !.done = @ \cup {"sidecar"}]
    /\ UNCHANGED <<env, args, pc, locals, result, callers, steps, kenburns_clip>>

WrapNext == WrapOverlay \/ WrapSidecar

WrapSpec == WrapInit /\ [][WrapNext]_vars

\* ------------------------------------------------------------- properties
\* the frame has passed the statement named
\* the call raised before it had a timing map
RaisedEarly ==
    pc = "raised" /\ steps[Len(steps)].step \in {"load_failed", "plan_failed"}

AfterPlan == pc \notin {"load", "plan"} /\ ~RaisedEarly
AfterFit == pc \notin {"load", "plan", "fit"} /\ ~RaisedEarly
AfterRender == pc \notin {"load", "plan", "fit", "render"} /\ ~RaisedEarly
AfterNarration ==
    pc \notin {"load", "plan", "fit", "render", "narration"} /\ ~RaisedEarly

\* the per-scene file the planner measures for a scene_id: the first existing
\* of .wav, .mp3, .ogg
HasSceneAudio(sid) ==
    \E e \in {".wav", ".mp3", ".ogg"} : SceneAudio(sid, e) \in DOMAIN audio_dir

SceneAudioFile(sid) ==
    IF SceneAudio(sid, ".wav") \in DOMAIN audio_dir THEN SceneAudio(sid, ".wav")
    ELSE IF SceneAudio(sid, ".mp3") \in DOMAIN audio_dir THEN SceneAudio(sid, ".mp3")
    ELSE SceneAudio(sid, ".ogg")

\* max(3.0, words / 3.0) seconds, in ticks
WordCountEstimate(narration) ==
    IF Len(narration) * 10 >= 90 THEN Len(narration) * 10 ELSE 90

\* what get_scene_durations returns for the frame's script
Planned == get_scene_durations(script, audio_dir)

\* C1: after budget-fitting the timing map in use sums to at most
\* MAX_DURATION (exactly; floats add rounding).
C1_BudgetRespected ==
    AfterFit => SumValues(durations) <= Seconds(MAX_DURATION) * den

\* a run that had to rescale
C1_Witness ==
    /\ pc = "render"
    /\ SumValues(Planned) > Seconds(MAX_DURATION)
    /\ den > 1

\* C2: budget-fitting keeps every planned duration when the planned total is
\* within MAX_DURATION, and otherwise multiplies every duration by the one
\* factor MAX_DURATION/total, so all ratios are kept.
C2_UniformScale ==
    AfterFit =>
      LET total == SumValues(Planned)
      IN /\ DOMAIN durations = DOMAIN Planned
         /\ IF total <= Seconds(MAX_DURATION)
            THEN den = 1 /\ durations = Planned
            ELSE /\ \A k \in DOMAIN Planned :
                      durations[k] * total = Planned[k] * Seconds(MAX_DURATION) * den
                 /\ \A i, j \in DOMAIN Planned :
                      durations[i] * Planned[j] = durations[j] * Planned[i]

\* 115 s and 80 s planned, both scaled by 120/195 = 8/13
C2_Witness ==
    /\ pc = "render"
    /\ DOMAIN Planned = {1, 2}
    /\ Planned[1] = Seconds(115) /\ Planned[2] = Seconds(80)
    /\ durations[1] * 13 = Seconds(115) * 8 * den
    /\ durations[2] * 13 = Seconds(80) * 8 * den

\* the last scene of the script that carries scene_id sid
LastSceneWith(sid) ==
    script[CHOOSE k \in 1..Len(script) :
              /\ script[k].scene_id = sid
              /\ \A j \in (k + 1)..Len(script) : script[j].scene_id # sid]

C4_PositiveDurations ==
    AfterPlan => \A sid \in DOMAIN durations : durations[sid] > 0

\* the run ended by returning from a loaded script
Finished == pc = "returned" /\ script # <<>>

\* C5: a scene without scene_NN.jpg gets a black clip of the output size
\* lasting exactly the scene's duration in the timing map; every scene still
\* gets its clip and the run ends with the exported video.
C5_MissingImageBlackClip ==
    /\ \A i \in 1..Len(scene_clips) :
         SceneImage(script[i].scene_id) \notin images_dir =>
           /\ scene_clips[i].kind = "color"
           /\ scene_clips[i].color = <<0, 0, 0>>
           /\ scene_clips[i].size = <<1920, 1080>>
           /\ scene_clips[i].duration = durations[script[i].scene_id]
    /\ AfterRender => Len(scene_clips) = Len(script)
    /\ Finished => /\ result = FinalVideoMp4
                   /\ FinalVideoMp4 \in DOMAIN output_dir
                   /\ Len(output_dir[FinalVideoMp4].video.track) = Len(script)

\* a finished run with a black clip before an animated one
C5_Witness ==
    /\ Finished /\ callers = <<>>
    /\ result = FinalVideoMp4
    /\ Len(scene_clips) = 2
    /\ SceneImage(script[1].scene_id) \notin images_dir
    /\ scene_clips[1].kind = "color"
    /\ scene_clips[2].kind = "kenburns"

\* sum of the timing map's durations of the first k scenes of the script
RECURSIVE ScriptTime(_)
ScriptTime(k) ==
    IF k = 0 THEN 0 ELSE ScriptTime(k - 1) + durations[script[k].scene_id]

\* C6: the video track holds one clip per scene in script order, the i-th
\* lasting durations[scene_id_i] and starting where the (i-1)-th ends, the
\* first at 0, and the track lasts the sum of the clip durations.
C6_HardCutConcatenation ==
    video.kind = "video" =>
      /\ Len(video.track) = Len(script)
      /\ video.duration = ScriptTime(Len(script))
      /\ \A i \in 1..Len(script) :
           /\ video.track[i].clip = i
           /\ scene_clips[i].duration = durations[script[i].scene_id]
           /\ scene_clips[i].kind = "kenburns" =>
                scene_clips[i].image = SceneImage(script[i].scene_id)
           /\ video.track[i].start = ScriptTime(i - 1)
           /\ video.track[i].end = ScriptTime(i)
           /\ i > 1 => video.track[i].start = video.track[i - 1].end

\* two scenes of different lengths, the script not in scene_id order
C6_Witness ==
    /\ video.kind = "video"
    /\ Len(script) = 2
    /\ script[1].scene_id = 2 /\ script[2].scene_id = 1
    /\ durations[1] # durations[2] /\ durations[2] > 0
    /\ video.track[2].start = durations[2]

\* the narration clip in audio_tracks, if any: the first track, unless it is
\* the music
NarrationFiles == {NarrationMp3, NarrationWav, NarrationCombined}

NarrationTrack ==
    IF audio_tracks # <<>> /\ audio_tracks[1].file \in NarrationFiles
    THEN <<audio_tracks[1]>> ELSE <<>>

HasFullNarration ==
    NarrationMp3 \in DOMAIN audio_dir \/ NarrationWav \in DOMAIN audio_dir

\* the per-scene recordings of the first k scenes that have one, in script order
RECURSIVE SceneRecordings(_)
SceneRecordings(k) ==
    IF k = 0 THEN <<>>
    ELSE IF HasSceneAudio(script[k].scene_id)
    THEN SceneRecordings(k - 1) \o audio_dir[SceneAudioFile(script[k].scene_id)]
    ELSE SceneRecordings(k - 1)

C8_NarrationTrimmed ==
    (AfterNarration /\ NarrationTrack # <<>>) =>
      LET clip == NarrationTrack[1]
          length == AudioLen(clip.data) * den
      IN /\ clip.loops = 1
         /\ clip.duration = IF length <= video.duration THEN length ELSE video.duration
         /\ clip.ops = IF length > video.duration THEN <<"subclip">> ELSE <<>>

\* a narration longer than the video, cut to the video's duration
C8_Witness ==
    /\ pc = "music"
    /\ NarrationTrack # <<>>
    /\ AudioLen(NarrationTrack[1].data) * den > video.duration
    /\ NarrationTrack[1].duration = video.duration
    /\ video.duration > 0

\* the music clips in audio_tracks
MusicTracks ==
    {audio_tracks[i] : i \in {j \in 1..Len(audio_tracks) :
                                 audio_tracks[j].file \notin NarrationFiles}}

\* C9: the music in the mix is the whole file repeated until it is at least
\* as long as the video, then cut to exactly the video's duration, and only
\* then given its gain and fades.
C9_MusicLoopedAndCut ==
    \A clip \in MusicTracks :
      LET length == AudioLen(clip.data) * den
      IN /\ clip.loops >= 1
         /\ clip.loops * length >= video.duration
         /\ clip.loops > 1 <=> length < video.duration
         /\ clip.duration = video.duration
         /\ clip.ops = (IF clip.loops > 1 THEN <<"loop">> ELSE <<>>)
                        \o <<"subclip", "volumex", "fadein", "fadeout">>

\* music shorter than the video, repeated and cut
C9_Witness ==
    /\ pc = "mix"
    /\ \E clip \in MusicTracks :
         /\ clip.loops > 1
         /\ clip.loops * AudioLen(clip.data) * den > video.duration
         /\ clip.duration = video.duration

\* the music the run ends up using: the given path if it exists, else the
\* project's bgm.mp3 if it exists
EffectiveBgm ==
    IF bgm_path # None
       /\ (bgm_path \in DOMAIN music_files
           \/ (bgm_path = DefaultBgm /\ DefaultBgm \in DOMAIN root_dir))
    THEN bgm_path
    ELSE IF DefaultBgm \in DOMAIN root_dir THEN DefaultBgm
    ELSE None

HasNarration ==
    HasFullNarration \/ \E k \in 1..Len(script) : HasSceneAudio(script[k].scene_id)

\* C10: the exported video carries the composite of narration and music when
\* both exist, the one track when one exists, and no audio when none does.
C10_ExportedAudio ==
    FinalVideoMp4 \in DOMAIN output_dir =>
      LET audio == output_dir[FinalVideoMp4].video.audio
      IN IF HasNarration /\ EffectiveBgm # None
         THEN /\ audio.kind = "composite"
              /\ Len(audio.tracks) = 2
              /\ audio.tracks[1].file \in NarrationFiles
              /\ audio.tracks[2].file = EffectiveBgm
         ELSE IF HasNarration
         THEN audio.kind = "audio" /\ audio.file \in NarrationFiles
         ELSE IF EffectiveBgm # None
         THEN audio.kind = "audio" /\ audio.file = EffectiveBgm
         ELSE audio = NoClip

\* an exported video with narration and music mixed
C10_Witness ==
    /\ FinalVideoMp4 \in DOMAIN output_dir
    /\ output_dir[FinalVideoMp4].video.audio.kind = "composite"
    /\ Len(output_dir[FinalVideoMp4].video.audio.tracks) = 2

\* the top-level call has returned the exported video
TopLevelDone == pc = "returned" /\ callers = <<>> /\ result = FinalVideoMp4

\* the music clips in the audio of the exported video
ExportedMusic ==
    LET audio == output_dir[FinalVideoMp4].video.audio
    IN IF audio.kind = "composite"
       THEN {audio.tracks[i] : i \in {j \in 1..Len(audio.tracks) :
                                         audio.tracks[j].file \notin NarrationFiles}}
       ELSE IF audio.kind = "audio" /\ audio.file \notin NarrationFiles
       THEN {audio}
       ELSE {}

\* C11: a call without a music path, in a project that has bgm.mp3, exports
\* what the call would have composed had bgm.mp3 been its music path: its own
\* video track and narration with the looped, cut and faded bgm.mp3 mixed in;
\* without bgm.mp3 the exported video has no music.
C11_DefaultMusic ==
    (TopLevelDone /\ bgm_path = None) =>
      LET exported == output_dir[FinalVideoMp4]
      IN IF DefaultBgm \in DOMAIN root_dir
         THEN /\ exported.den = den
              /\ [exported.video EXCEPT !.subtitles = <<>>]
                   = SetAudio(video, Append(audio_tracks,
                                            BgmClip(DefaultBgm, video.duration, den)))
              /\ ExportedMusic = {BgmClip(DefaultBgm, video.duration, den)}
         ELSE ExportedMusic = {}

\* a call without a music path that exported narration mixed with bgm.mp3
C11_Witness ==
    /\ TopLevelDone /\ bgm_path = None
    /\ DefaultBgm \in DOMAIN root_dir
    /\ output_dir[FinalVideoMp4].video.audio.kind = "composite"
    /\ \E clip \in ExportedMusic : clip.file = DefaultBgm /\ clip.loops > 1

\* the burned-in cues of the frame's video and the entries of the written
\* sidecar file
Cues == IF video.kind = "video" THEN video.subtitles ELSE <<>>
SrtEntries == IF SubtitlesSrt \in DOMAIN output_dir THEN output_dir[SubtitlesSrt] ELSE <<>>

\* the time a stamp HH:MM:SS,mmm denotes, in milliseconds
StampMillis(stamp) ==
    ((stamp.hours * 60 + stamp.minutes) * 60 + stamp.secs) * 1000 + stamp.millis

\* C12: the burned-in cues and the sidecar entries are each in script order
\* with non-decreasing start, and each cue ends no later than the next starts.
C12_CuesDoNotOverlap ==
    /\ \A i \in 1..(Len(Cues) - 1) :
         /\ Cues[i].scene < Cues[i + 1].scene
         /\ Cues[i].start <= Cues[i + 1].start
         /\ Cues[i].start + Cues[i].duration <= Cues[i + 1].start
    /\ Len(SrtEntries) > 0 =>
         /\ Len(SrtEntries) = Len(script)
         /\ \A k \in 1..Len(script) : SrtEntries[k].index = script[k].scene_id
    /\ \A k \in 1..(Len(SrtEntries) - 1) :
         /\ StampMillis(SrtEntries[k].start) <= StampMillis(SrtEntries[k + 1].start)
         /\ StampMillis(SrtEntries[k].end) <= StampMillis(SrtEntries[k + 1].start)

\* two burned-in cues and two sidecar entries, the first of each ending
\* before the second starts
C12_Witness ==
    /\ pc = "export"
    /\ Len(Cues) = 2 /\ Len(SrtEntries) = 2
    /\ Cues[1].duration > 0
    /\ Cues[1].start + Cues[1].duration < Cues[2].start
    /\ StampMillis(SrtEntries[1].start) < StampMillis(SrtEntries[1].end)
    /\ StampMillis(SrtEntries[1].end) < StampMillis(SrtEntries[2].start)

\* C13: every burned-in cue lies strictly inside the window of its scene's
\* clip in the video track: scene start < cue start < cue end < scene end.
C13_CueInsideScene ==
    \A i \in 1..Len(Cues) :
      LET cue == Cues[i]
          window == video.track[cue.scene]
      IN /\ window.start < cue.start
         /\ cue.start < cue.start + cue.duration
         /\ cue.start + cue.duration < window.end

\* the statement executed last
LastStep == steps[Len(steps)]

\* the scenes, in script order, that are not in a set
RECURSIVE ScenesWithout(_, _)
ScenesWithout(failed, k) ==
    IF k = 0 THEN <<>>
    ELSE IF k \in failed THEN ScenesWithout(failed, k - 1)
    ELSE Append(ScenesWithout(failed, k - 1), k)

\* C14: when the TextClip of some scenes raises, the caption track holds the
\* cue of every other scene, in script order, each with the start and the
\* duration it has without any failure; the call then goes on to the export,
\* and nothing but the encoder makes it end in an exception.
C14_FailedCueSkipped ==
    /\ (pc = "srt" /\ LastStep.step = "subtitles") =>
         LET kept == ScenesWithout(LastStep.failed, Len(script))
         IN /\ Len(Cues) = Len(kept)
            /\ \A i \in 1..Len(kept) :
                 LET k == kept[i]
                 IN /\ Cues[i].scene = k
                    /\ Cues[i].start = ScriptTime(k - 1) + Tenths(1) * den
                    /\ Cues[i].duration = durations[script[k].scene_id] - Tenths(2) * den
                    /\ Cues[i].text = _wrap_text(script[k].narration, 50)
    /\ \A n \in 1..Len(steps) :
         (steps[n].step = "subtitles" /\ pc \in {"returned", "raised"}) =>
           \E m \in (n + 1)..Len(steps) :
             /\ steps[m].step \in {"export", "export_failed"}
             /\ steps[m].depth = steps[n].depth
    /\ \A n \in 1..Len(steps) :
         (steps[n].step = "subtitles"
            /\ (pc = "raised" \/ \E u \in 1..Len(steps) : steps[u].step = "unwind")) =>
           \E m \in 1..Len(steps) : steps[m].step = "export_failed"

\* the first of two cues failed: the second one is there, at its own start,
\* and the video has been exported
C14_Witness ==
    /\ TopLevelDone
    /\ Len(script) = 2
    /\ \E n \in 1..Len(steps) : steps[n].step = "subtitles" /\ steps[n].failed = {1}
    /\ Len(output_dir[FinalVideoMp4].video.subtitles) = 1
    /\ LET cue == output_dir[FinalVideoMp4].video.subtitles[1]
       IN /\ cue.scene = 2
          /\ cue.start = durations[script[1].scene_id] + Tenths(1) * den
          /\ durations[script[1].scene_id] > 0

\* the duration the planner assigns to a scene_id before any rescale: the
\* measured length of its per-scene file, else the word-count estimate
UnscaledDuration(sid) ==
    IF HasSceneAudio(sid) THEN AudioLen(audio_dir[SceneAudioFile(sid)])
    ELSE WordCountEstimate(LastSceneWith(sid).narration)

\* sum of the unscaled durations of the first k scenes of the script
RECURSIVE UnscaledTime(_)
UnscaledTime(k) ==
    IF k = 0 THEN 0 ELSE UnscaledTime(k - 1) + UnscaledDuration(script[k].scene_id)

\* a time in ticks, truncated to whole milliseconds
TicksToMillis(t) == (t * 1000) \div Seconds(1)

\* C15: the sidecar file times every scene that has a per-scene audio file
\* (.wav, .mp3 or .ogg) with that file's measured length, and uses the
\* word-count estimate for all scenes only when there is no such file.
C15_SidecarUsesMeasured ==
    \A k \in 1..Len(SrtEntries) :
      /\ StampMillis(SrtEntries[k].start) = TicksToMillis(UnscaledTime(k - 1))
      /\ StampMillis(SrtEntries[k].end) = TicksToMillis(UnscaledTime(k) - Tenths(1))

\* the duration the sidecar file gives a scene_id: the measured length of
\* scene_NN.wav, else the word-count estimate; never rescaled
SidecarDuration(sid) ==
    IF SceneAudio(sid, ".wav") \in DOMAIN audio_dir
    THEN AudioLen(audio_dir[SceneAudio(sid, ".wav")])
    ELSE WordCountEstimate(LastSceneWith(sid).narration)

RECURSIVE SidecarTime(_)
SidecarTime(k) ==
    IF k = 0 THEN 0 ELSE SidecarTime(k - 1) + SidecarDuration(script[k].scene_id)

\* every scene's planned duration is one the sidecar file also uses
SidecarSeesAllAudio ==
    \A k \in 1..Len(script) :
      HasSceneAudio(script[k].scene_id) =>
        SceneAudio(script[k].scene_id, ".wav") \in DOMAIN audio_dir

\* C16: the sidecar file is a function of the script and the audio files
\* alone: whether or not the run rescaled, every cue starts at the sum of the
\* unscaled durations of the scenes before it and ends 0.1 s before the sum
\* that includes its own.
C16_SidecarNotRescaled ==
    /\ \A k \in 1..Len(SrtEntries) :
         /\ StampMillis(SrtEntries[k].start) = TicksToMillis(SidecarTime(k - 1))
         /\ StampMillis(SrtEntries[k].end) = TicksToMillis(SidecarTime(k) - Tenths(1))
         /\ SrtEntries[k].text = _wrap_subtitle_text(script[k].narration, 45)
    /\ (Len(SrtEntries) > 0 /\ SidecarSeesAllAudio) =>
         \A k \in 1..Len(SrtEntries) :
           StampMillis(SrtEntries[k].start) = TicksToMillis(UnscaledTime(k - 1))

\* a run that rescaled: the second scene starts before 115 s in the video,
\* its sidecar cue at 115 s
C16_Witness ==
    /\ pc = "export"
    /\ den > 1
    /\ Len(SrtEntries) = 2
    /\ SidecarSeesAllAudio
    /\ UnscaledDuration(script[1].scene_id) = Seconds(115)
    /\ StampMillis(SrtEntries[2].start) = 115000
    /\ video.track[2].start < Seconds(115) * den

\* the composed video and the per-scene clips of a call are all closed
AllClosed(v, clips) ==
    /\ v.kind = "video" => v.closed
    /\ \A i \in 1..Len(clips) : clips[i].closed

\* C17: a call that has created clips has closed its video and every one of
\* its per-scene clips when it is left: by returning, by an exception, or by
\* handing over to the nested call for bgm.mp3.
C17_ClipsClosed ==
    /\ pc \in {"returned", "raised"} => AllClosed(video, scene_clips)
    /\ \A n \in 1..Len(callers) :
         AllClosed(callers[n].video, callers[n].scene_clips)

\* the pipeline stage a statement belongs to: 1 duration planning, 2 per-scene
\* rendering, 3 track concatenation, 4 audio composition, 5 caption overlay,
\* 6 export; 0 for the statements outside the stages
Stage(step) ==
    IF step \in {"plan", "plan_failed", "fit"} THEN 1
    ELSE IF step = "render" THEN 2
    ELSE IF step = "concatenate" THEN 3
    ELSE IF step \in {"narration", "music", "no_music", "reenter", "mix"} THEN 4
    ELSE IF step \in {"subtitles", "subtitles_failed", "no_subtitles"} THEN 5
    ELSE IF step \in {"srt", "srt_failed", "export", "export_failed"} THEN 6
    ELSE 0

\* the statements of stages among the first n executed
StageSteps(n) == {m \in 1..n : Stage(steps[m].step) > 0}

\* C18: in a call of assemble_video, the nested call for bgm.mp3 included,
\* the stages run in the order planning, rendering (scene by scene in script
\* order), concatenation, audio, captions, export: once a stage has started,
\* no earlier stage runs again.
C18_StagesInOrder ==
    \A n \in StageSteps(Len(steps)) :
      /\ \A m \in StageSteps(n) : Stage(steps[m].step) <= Stage(steps[n].step)
      /\ steps[n].step = "render" =>
           steps[n].scene = 1 + Cardinality({m \in 1..(n - 1) : steps[m].step = "render"})

\* within the statements one call executes itself, the stages are in order
StagesInOrderWithinCall ==
    \A n \in StageSteps(Len(steps)) :
      \A m \in StageSteps(n) :
        (steps[m].depth = steps[n].depth) => Stage(steps[m].step) <= Stage(steps[n].step)

\* the executed statements with one of the given names
StepsNamed(names) == {n \in 1..Len(steps) : steps[n].step \in names}

\* C19: a top-level call re-enters itself at most once; once it has reached
\* the export, subtitles.srt has been written exactly once and
\* write_videofile called exactly once, both by the nested call when there is
\* one, and the files are in the output directory.
C19_WrittenOnce ==
    /\ Cardinality(StepsNamed({"reenter"})) <= 1
    /\ \A n \in StepsNamed({"reenter"}) : steps[n].depth = 0
    /\ \A n \in StepsNamed({"srt", "export", "export_failed"}) :
         steps[n].depth = Cardinality(StepsNamed({"reenter"}))
    /\ Cardinality(StepsNamed({"srt"})) <= 1
    /\ Cardinality(StepsNamed({"export", "export_failed"})) <= 1
    /\ StepsNamed({"export", "export_failed"}) # {} =>
         /\ Cardinality(StepsNamed({"srt"})) = 1
         /\ SubtitlesSrt \in DOMAIN output_dir
    /\ StepsNamed({"export"}) # {} <=>
         (FinalVideoMp4 \in DOMAIN output_dir /\ output_dir[FinalVideoMp4].complete)
    /\ TopLevelDone => Cardinality(StepsNamed({"export"})) = 1

\* a finished top-level call that re-entered itself: one sidecar write and
\* one export, both by the nested call
C19_Witness ==
    /\ TopLevelDone
    /\ LastStep.step = "return"
    /\ Cardinality(StepsNamed({"reenter"})) = 1
    /\ \E n \in StepsNamed({"export"}) : steps[n].depth = 1
    /\ \E n \in StepsNamed({"srt"}) : steps[n].depth = 1

\* C20: no step of assemble_video creates, modifies or deletes a file of the
\* image or audio directory, and the only files of the output directory are
\* final_video.mp4 and subtitles.srt.
C20_InputsReadOnly ==
    [][/\ audio_dir' = audio_dir
       /\ images_dir' = images_dir
       /\ DOMAIN output_dir' \subseteq {FinalVideoMp4, SubtitlesSrt}]_vars

\* what does hold: the image directory and the project root are never written
\* and the output directory receives the two final files only
ImagesReadOnly ==
    [][/\ images_dir' = images_dir
       /\ root_dir' = root_dir
       /\ DOMAIN output_dir' \subseteq {FinalVideoMp4, SubtitlesSrt}]_vars

\* what the audio directory gains: narration_combined.mp3 and nothing else,
\* every input recording keeping its content
OnlyCombinedAdded ==
    [][/\ DOMAIN audio_dir' \subseteq DOMAIN audio_dir \cup {NarrationCombined}
       /\ \A f \in DOMAIN audio_dir \ {NarrationCombined} :
            f \in DOMAIN audio_dir' /\ audio_dir'[f] = audio_dir[f]]_vars

\* the per-scene recordings have been joined into a new file of the audio
\* directory
CombinedWritten ==
    /\ NarrationCombined \in DOMAIN audio_dir
    /\ NarrationMp3 \notin DOMAIN audio_dir
    /\ NarrationWav \notin DOMAIN audio_dir
    /\ SceneAudio(1, ".wav") \in DOMAIN audio_dir
    /\ Len(script) = 1

\* script.json is missing, is not JSON, has no "scenes", or has a scene
\* without "scene_id" or without "narration"
BadScript ==
    \/ ~Exists(root_dir, ScriptJson)
    \/ ~HasScenes(root_dir[ScriptJson])
    \/ \E k \in 1..Len(root_dir[ScriptJson]) :
         \/ root_dir[ScriptJson][k].scene_id = NoSceneId
         \/ root_dir[ScriptJson][k].narration = NoNarration

\* C21: with a missing or malformed script.json the call has no result and
\* writes nothing: no final_video.mp4, no subtitles.srt and no intermediate
\* file.
C21_NoOutputOnBadScript ==
    BadScript =>
      /\ result = None
      /\ output_dir = EmptyDict
      /\ NarrationCombined \notin DOMAIN audio_dir

\* what does hold: such a call never reaches the export, has no result and
\* leaves the output directory empty
BadScriptNoFinalOutput ==
    BadScript =>
      /\ result = None
      /\ output_dir = EmptyDict
      /\ pc \notin {"export", "cleanup"}

\* a scene without "narration" whose recording exists: the call gets as far
\* as Step 6 and has joined the recordings into a file by then
BadScriptWroteCombined ==
    /\ pc = "raised"
    /\ callers = <<>>
    /\ LastStep.step = "srt_failed"
    /\ script = <<[scene_id |-> 1, narration |-> NoNarration]>>
    /\ NarrationCombined \in DOMAIN audio_dir

\* C22: after a failed write_videofile the call has ended in an exception and
\* the output directory holds no final_video.mp4, so its files differ from
\* those a successful call leaves.
C22_FailedExportLeavesNoFile ==
    (pc = "raised" /\ StepsNamed({"export_failed"}) # {}) =>
      /\ FinalVideoMp4 \notin DOMAIN output_dir
      /\ DOMAIN output_dir # {SubtitlesSrt, FinalVideoMp4}

\* what does hold: a failed export ends the call in an exception, without a
\* result
FailedExportRaises ==
    StepsNamed({"export_failed"}) # {} => pc = "raised" /\ result = None

\* the encoder failed after it had started the file: the top-level call has
\* raised and final_video.mp4 is there, incomplete, beside subtitles.srt
PartialFileLeft ==
    /\ pc = "raised"
    /\ callers = <<>>
    /\ DOMAIN output_dir = {SubtitlesSrt, FinalVideoMp4}
    /\ ~output_dir[FinalVideoMp4].complete

\* a frame of the exercised clip has been made
FrameMade == pc = "idle" /\ kenburns_clip # NoClip /\ kenburns_clip.frame # NoFrame

\* a/b <= c/d for pairs with positive denominators
RatioLeq(a, b) == a[1] * b[2] <= b[1] * a[2]

\* C23: _ease_in_out maps 0 to 0 and 1 to 1, keeps [0,1] inside [0,1], never
\* decreases, gives 1/2 at 1/2 from either branch, and ease(p) + ease(1-p) = 1.
C23_EaseInOut ==
    FrameMade =>
      LET t == kenburns_clip.frame.t
          d == kenburns_clip.duration
          p == RawProgress(t, d)
          e == kenburns_clip.frame.progress
          mirrored == _ease_in_out(<<p[2] - p[1], p[2]>>)
      IN /\ e = _ease_in_out(p)
         /\ p[1] = 0 => e[1] = 0
         /\ p[1] = p[2] => e[1] = e[2]
         /\ 0 <= e[1] /\ e[1] <= e[2]
         /\ \A u \in 0..t : RatioLeq(_ease_in_out(RawProgress(u, d)), e)
         /\ 2 * p[1] = p[2] =>
              /\ 2 * e[1] = e[2]
              /\ 2 * (4 * p[1] * p[1] * p[1]) = p[2] * p[2] * p[2]
         /\ e[1] * mirrored[2] + mirrored[1] * e[2] = e[2] * mirrored[2]

\* frames at progress 1/2 and at progress 1 of an 8-frame clip
C23_Witness ==
    /\ FrameMade
    /\ kenburns_clip.duration = 8
    /\ kenburns_clip.frame.t = 4
    /\ kenburns_clip.frame.progress = <<256, 512>>

\* C24: for every effect value and every frame time in [0, duration] the crop
\* window is non-empty and inside the oversized image, so the frame is the
\* whole window resized to output_size.
C24_CropInsideImage ==
    FrameMade =>
      LET f == kenburns_clip.frame
          ow == oversized(kenburns_clip.video_size)[1]
          oh == oversized(kenburns_clip.video_size)[2]
      IN /\ f.crop_w > 0 /\ f.crop_h > 0
         /\ 0 <= f.x1 /\ f.x1 + f.crop_w <= ow
         /\ 0 <= f.y1 /\ f.y1 + f.crop_h <= oh
         /\ f.x2 = f.x1 + f.crop_w /\ f.y2 = f.y1 + f.crop_h
         /\ f.cropped = <<f.crop_w, f.crop_h>>
         /\ f.size = kenburns_clip.video_size

\* the first frame of a pan_left clip: a 1786 px window right of the middle
C24_Witness ==
    /\ FrameMade
    /\ kenburns_clip.effect = "pan_left"
    /\ kenburns_clip.frame.t = 0
    /\ kenburns_clip.duration = MaxFrames
    /\ kenburns_clip.frame.crop_w = 1786
    /\ kenburns_clip.frame.x1 = 554
    /\ kenburns_clip.frame.x2 = 2340

\* a/b = c/d for pairs with positive denominators
RatioEq(a, b) == a[1] * b[2] = b[1] * a[2]

\* c - o/2 = sign * 0.08 * o * (1 - e), for c and e over denominators that
\* divide each other
OffsetIs(c, o, sign, e) ==
    LET k == c[2] \div e[2]
    IN /\ c[2] = k * e[2]
       /\ (2 * c[1] - o * c[2]) * 25 = sign * 4 * o * (e[2] - e[1]) * k

\* the frame another effect gives at a time of the same clip
OtherFrame(effect, t) ==
    make_frame(t, kenburns_clip.duration, effect, kenburns_clip.video_size)

\* C25: zoom and centre as functions of the eased progress e, with z0 = 1.0
\* and z1 = 1.15: slow_zoom_in z0 + (z1 - z0)e at the centre, slow_zoom_out
\* z1 - (z1 - z0)e, its time-reverse; the pans hold (z0 + z1)/2 and offset the
\* centre on their own axis by 8% of the oversized dimension times (1 - e),
\* left/right and up/down mirrored; anything else holds 1.05 at the centre.
C25_ZoomAndCentre ==
    FrameMade =>
      LET f == kenburns_clip.frame
          effect == kenburns_clip.effect
          d == kenburns_clip.duration
          e == f.progress
          ow == oversized(kenburns_clip.video_size)[1]
          oh == oversized(kenburns_clip.video_size)[2]
          AtCentreX == RatioEq(f.cx, <<ow, 2>>)
          AtCentreY == RatioEq(f.cy, <<oh, 2>>)
      IN /\ effect = "slow_zoom_in" =>
              /\ f.zoom[1] * (20 * e[2]) = (20 * e[2] + 3 * e[1]) * f.zoom[2]
              /\ e[1] = 0 => RatioEq(f.zoom, <<1, 1>>)
              /\ e[1] = e[2] => RatioEq(f.zoom, <<115, 100>>)
              /\ AtCentreX /\ AtCentreY
         /\ effect = "slow_zoom_out" =>
              /\ f.zoom[1] * (20 * e[2]) = (23 * e[2] - 3 * e[1]) * f.zoom[2]
              /\ f.zoom[1] * (20 * e[2]) = (20 * e[2] + 3 * (e[2] - e[1])) * f.zoom[2]
              /\ d > 0 => RatioEq(f.zoom, OtherFrame("slow_zoom_in", d - f.t).zoom)
              /\ AtCentreX /\ AtCentreY
         /\ effect \in {"pan_left", "pan_right", "pan_up", "pan_down"} =>
              /\ RatioEq(f.zoom, <<1075, 1000>>)
              /\ e[1] = e[2] => AtCentreX /\ AtCentreY
         /\ effect = "pan_left" =>
              /\ OffsetIs(f.cx, ow, 1, e) /\ AtCentreY
              /\ f.cx[2] = OtherFrame("pan_right", f.t).cx[2]
              /\ f.cx[1] + OtherFrame("pan_right", f.t).cx[1] = ow * f.cx[2]
         /\ effect = "pan_right" =>
              /\ OffsetIs(f.cx, ow, -1, e) /\ AtCentreY
         /\ effect = "pan_up" =>
              /\ OffsetIs(f.cy, oh, 1, e) /\ AtCentreX
              /\ f.cy[2] = OtherFrame("pan_down", f.t).cy[2]
              /\ f.cy[1] + OtherFrame("pan_down", f.t).cy[1] = oh * f.cy[2]
         /\ effect = "pan_down" =>
              /\ OffsetIs(f.cy, oh, -1, e) /\ AtCentreX
         /\ effect \notin Effects \ {"static"} =>
              /\ RatioEq(f.zoom, <<105, 100>>)
              /\ AtCentreX /\ AtCentreY

\* the first frame of a pan_right clip: the centre is 8% of 2496 px left of
\* the middle, the zoom 1.075
C25_Witness ==
    /\ FrameMade
    /\ kenburns_clip.effect = "pan_right"
    /\ kenburns_clip.duration = MaxFrames
    /\ kenburns_clip.frame.t = 0
    /\ kenburns_clip.frame.progress[1] = 0
    /\ RatioEq(kenburns_clip.frame.cx, <<31200 - 4992, 25>>)
    /\ RatioEq(kenburns_clip.frame.zoom, <<43, 40>>)

\* C26: the burned-in cue of the i-th scene starts 0.1 s after the start of
\* that scene's clip in the video track, which is the sum of the fitted
\* durations of the scenes before it, and is shown for the scene's fitted
\* duration minus 0.2 s.
C26_CueTiming ==
    \A c \in 1..Len(Cues) :
      LET i == Cues[c].scene
          S == video.track[i].start
          dur == durations[script[i].scene_id]
      IN /\ video.track[i].clip = i
         /\ S = SumValues([j \in 1..(i - 1) |-> durations[script[j].scene_id]])
         /\ video.track[i].end - S = dur
         /\ Cues[c].start = S + Tenths(1) * den
         /\ Cues[c].duration = dur - Tenths(2) * den

\* a rescaled run with two cues: the second starts 0.1 s after the second
\* clip, which does not start at 0
C26_Witness ==
    /\ pc = "srt"
    /\ den > 1
    /\ Len(Cues) = 2
    /\ video.track[2].start > 0
    /\ Cues[2].start = video.track[2].start + Tenths(1) * den
    /\ Cues[2].duration > 0

\* the fields of an HH:MM:SS,mmm stamp are in range
WellFormedStamp(stamp) ==
    /\ stamp.hours >= 0
    /\ stamp.minutes \in 0..59
    /\ stamp.secs \in 0..59
    /\ stamp.millis \in 0..999

\* C27: every stamp generate_scene_level_srt writes is a well-formed
\* HH:MM:SS,mmm whose value is the time truncated to milliseconds (start the
\* running time, end the running time + duration - 0.1 s), and no entry
\* starts later than it ends.
C27_StampsWellFormed ==
    \A k \in 1..Len(SrtEntries) :
      /\ WellFormedStamp(SrtEntries[k].start)
      /\ WellFormedStamp(SrtEntries[k].end)
      /\ StampMillis(SrtEntries[k].start) = TicksToMillis(SidecarTime(k - 1))
      /\ StampMillis(SrtEntries[k].end) = TicksToMillis(SidecarTime(k) - Tenths(1))
      /\ StampMillis(SrtEntries[k].start) <= StampMillis(SrtEntries[k].end)

\* what does hold: the stamps of every entry whose duration is at least the
\* 0.1 s gap are well-formed, truncated and ordered
StampsOfLongerScenes ==
    \A k \in 1..Len(SrtEntries) :
      SidecarDuration(script[k].scene_id) >= Tenths(1) =>
        /\ WellFormedStamp(SrtEntries[k].start)
        /\ WellFormedStamp(SrtEntries[k].end)
        /\ StampMillis(SrtEntries[k].start) = TicksToMillis(SidecarTime(k - 1))
        /\ StampMillis(SrtEntries[k].end) = TicksToMillis(SidecarTime(k) - Tenths(1))
        /\ StampMillis(SrtEntries[k].start) <= StampMillis(SrtEntries[k].end)

\* a first scene of duration 0.0: its entry runs from 00:00:00,000 to
\* -1:59:59,900
NegativeEndStamp ==
    /\ Len(SrtEntries) >= 1
    /\ SidecarDuration(script[1].scene_id) = 0
    /\ SrtEntries[1].start = [hours |-> 0, minutes |-> 0, secs |-> 0, millis |-> 0]
    /\ SrtEntries[1].end = [hours |-> -1, minutes |-> 59, secs |-> 59, millis |-> 900]

\* the words of a sequence of lines, in order
RECURSIVE Flatten(_)
Flatten(lines) ==
    IF lines = <<>> THEN <<>> ELSE Head(lines) \o Flatten(Tail(lines))

\* characters of a line: its words and the spaces between them
RECURSIVE LineLength(_)
LineLength(line) ==
    IF line = <<>> THEN -1 ELSE Head(line) + 1 + LineLength(Tail(line))

\* the wrap keeps the words and their order and keeps every line of several
\* words within max_chars
WrappedWell(lines, text, max_chars) ==
    /\ Flatten(lines) = Split(text)
    /\ \A i \in 1..Len(lines) :
         /\ lines[i] # <<>>
         /\ Len(lines[i]) > 1 => LineLength(lines[i]) <= max_chars
         /\ LineLength(lines[i]) > max_chars =>
              Len(lines[i]) = 1 /\ lines[i][1] > max_chars

\* a text is being wrapped on its own
Wrapping == pc = "idle" /\ kenburns_clip = NoClip

\* C28: _wrap_text and _wrap_subtitle_text keep every word whole and in
\* order, keep every line of more than one word within max_chars (only a
\* single over-long word makes a longer line), and give the same lines for
\* the same text and max_chars.
C28_WordWrap ==
    Wrapping =>
      /\ "overlay" \in wrap_call.done =>
           WrappedWell(wrap_call.overlay, wrap_call.text, wrap_call.max_chars)
      /\ "sidecar" \in wrap_call.done =>
           WrappedWell(wrap_call.sidecar, wrap_call.text, wrap_call.max_chars)
      /\ wrap_call.done = {"overlay", "sidecar"} => wrap_call.overlay = wrap_call.sidecar

\* words of 20 and 22 letters and a word of 51 letters, wrapped at
\* 45: "w20 w22" (43 characters) and the over-long word alone, from both
\* functions
C28_Witness ==
    /\ Wrapping
    /\ wrap_call.done = {"overlay", "sidecar"}
    /\ wrap_call.text = <<20, 22, 51>>
    /\ wrap_call.max_chars = 45
    /\ wrap_call.overlay = <<<<20, 22>>, <<51>>>>
    /\ wrap_call.sidecar = wrap_call.overlay

\* the scene_ids of the frame's script are pairwise distinct
DistinctIds ==
    \A i, j \in 1..Len(script) : i # j => script[i].scene_id # script[j].scene_id

\* C29: with pairwise distinct scene_ids the concatenated video lasts the sum
\* of the budget-fitted timing map, which is at most MAX_DURATION.
C29_VideoTotal ==
    (video.kind = "video" /\ DistinctIds) =>
      /\ Cardinality(DOMAIN durations) = Len(script)
      /\ video.duration = SumValues(durations)
      /\ video.duration = total_duration
      /\ video.duration <= Seconds(MAX_DURATION) * den

\* two scenes of 115 s and 80 s fitted into a video of exactly 120 s
C29_Witness ==
    /\ video.kind = "video"
    /\ DistinctIds
    /\ Len(script) = 2
    /\ den = 13
    /\ durations[1] = Seconds(115) * 8 /\ durations[2] = Seconds(80) * 8
    /\ video.duration = Seconds(MAX_DURATION) * den

\* with a repeated scene_id the video outlasts the timing map's sum
RepeatedIdOutlastsMap ==
    /\ video.kind = "video"
    /\ ~DistinctIds
    /\ video.duration > SumValues(durations)

\* no full narration, a recording for every scene, distinct scene_ids, no
\* rescale, and the narration step done
AlignedCase ==
    /\ AfterNarration
    /\ script # <<>>
    /\ ~HasFullNarration
    /\ \A k \in 1..Len(script) : HasSceneAudio(script[k].scene_id)
    /\ DistinctIds
    /\ den = 1

\* C30: in that case the narration is made of the very files the planner
\* measured, one per scene in script order, so each scene's narration starts
\* at its clip's start and the narration lasts exactly as long as the video.
C30_NarrationAligned ==
    AlignedCase =>
      /\ Len(NarrationTrack) = 1
      /\ LET clip == NarrationTrack[1]
         IN /\ Len(clip.data) = Len(script)
            /\ \A k \in 1..Len(script) :
                 /\ clip.data[k].file = SceneAudioFile(script[k].scene_id)
                 /\ clip.data[k].len = durations[script[k].scene_id]
                 /\ AudioLen(SubSeq(clip.data, 1, k - 1)) = video.track[k].start
            /\ clip.duration = video.duration
            /\ clip.ops = <<>>

\* scene 1 with a 115 s .wav beside an .mp3, scene 2 with a 0.1 s .ogg: the
\* narration is the .wav then the .ogg, the second at 115 s like its clip
C30_Witness ==
    /\ AlignedCase
    /\ Len(script) = 2
    /\ NarrationTrack[1].data[1] = [file |-> SceneAudio(1, ".wav"), len |-> Seconds(115)]
    /\ NarrationTrack[1].data[2].file = SceneAudio(2, ".ogg")
    /\ SceneAudio(1, ".mp3") \in DOMAIN audio_dir
    /\ video.track[2].start = Seconds(115)
    /\ NarrationTrack[1].duration = video.duration

====
